---- MODULE Spec2Model ----
(***************************************************************************)
(* Model of the Iridium presentation subsystem: the window loop of         *)
(* Source/Window.cpp, the resize handshake of Source/Wayland/Wayland.cpp   *)
(* and the swapchain / frame protocol of Source/Vulkan/Vulkan.cpp, with    *)
(* the GPU as a second process that completes submitted batches.           *)
(***************************************************************************)
EXTENDS Integers, Sequences, FiniteSets, TLC

\* ---------------------------------------------------------------- bounds
\* Largest number of images the presentation engine creates per swapchain,
\* in the window loop and in the steady loop.
MaxImages == 2
MaxSteadyImages == 3
\* Largest number of events one wl_display_roundtrip dispatches.
MaxEvents == 2
\* Number of leading successful frames of a generation that are recorded.
MaxHist == 5
\* Largest number of physical devices enumerated.
MaxDevices == 3
\* Largest number of physical devices and of queue families of the selected
\* device when Connect is followed from vkCreateInstance to its return.
MaxConnDevices == 1
MaxFamilies == 2
\* Largest minImageCount / maxImageCount a surface reports.
MaxCapMin == 8
MaxCapMax == 10

\* Push calls in a behaviour of SpecStack: one more than the stack limit.
MaxPushes == 16

\* Push calls in a behaviour of SpecErrors.
MaxErrors == 2

\* Problems kept by appending in SpecProblems, and the largest index used.
MaxProblems == 2
\* Events one roundtrip dispatches in SpecResize.
MaxResizeEvents == 3
\* Largest maximum handed to Ir_SetMaxProblems.
MaxCap == 2
\* Length of silenced_functions.
MaxSilenced == 2
\* Problems kept by appending in SpecCatch.
MaxCaught == 1

\* ------------------------------------------------------------- constants
\* VK_NULL_HANDLE as the value of lastFence.
Null == -1

VARIABLES
    \* main thread (Window::Window, Window::~Window)
    pc,
    \* Wayland.cpp globals
    resize, ready_to_resize, quit, size, new_size,
    \* Vulkan.cpp globals
    swapchain, image_count, current_frame, image_index, fence, lastFence,
    fb_extent,
    \* device: batches submitted to the queue and not yet completed
    inflight,
    \* allocation counters of the device (live handles per object kind)
    alloc,
    \* observers: the calls made in the current tick of the window loop,
    \* the signals not yet answered by a recreation, the slots used
    ops, owed, slotHist,
    \* observer: the slots whose semaphores and fence the calls of the
    \* current tick were given
    sems,
    \* presentation engine: the presents queued and not yet consumed
    presents,
    \* observer: the events the last roundtrip dispatched
    events,
    \* Connect: physical device selection
    physDevices, sel_i, bestScore, gpu_device,
    \* StartSwapchain: surface capabilities and requested image count
    capabilities, requested, caps_pc,
    \* Connect: position, device features, creation results, queue families
    conn_pc, geometryShader, instance_result, queueFamilies, qf_i,
    queue_family_index, device_result,
    \* Errors.cpp: the error stack, and Stringify's function-local static
    error_stack, stringified_error,
    \* observers: every error pushed so far, the last Push call and how it
    \* ended, the error Pull returned, the last Stringify call
    pushed, push_result, last_error, stringify_call,
    \* Errors.c globals (reported_problem_count is Len(reported_problems))
    fatality_level, max_reported_problems, reported_problems,
    silenced_functions,
    \* the process was ended by abort()
    aborted,
    \* observers: the last Ir_GetProblem call, the last Ir_ReportProblem
    \* call, the names released since they were last caught
    got, last_report, released

mainVars == <<pc, resize, ready_to_resize, quit, size, new_size, swapchain,
              image_count, current_frame, image_index, fence, lastFence,
              fb_extent, inflight, alloc, ops, owed, slotHist, sems,
              presents, events>>
selVars == <<physDevices, sel_i, bestScore, gpu_device>>
capVars == <<capabilities, requested, caps_pc>>
connVars == <<conn_pc, geometryShader, instance_result, queueFamilies, qf_i,
              queue_family_index, device_result>>
errVars == <<error_stack, stringified_error, pushed, push_result,
             last_error, stringify_call>>
probVars == <<fatality_level, max_reported_problems, reported_problems,
              silenced_functions, aborted, got, last_report, released>>
auxVars == <<errVars, probVars>>
vars == <<mainVars, selVars, capVars, connVars, auxVars>>

\* ----------------------------------------------------- swapchain sizing
\* Pairs (minImageCount, maxImageCount) a surface can report: at least one
\* image, and a maximum of 0 (no limit) or at least the minimum.
CapabilitySet(maxMin, maxMax) ==
    {c \in [minImageCount : 1..maxMin, maxImageCount : 0..maxMax] :
        c.maxImageCount = 0 \/ c.maxImageCount >= c.minImageCount}

\* createInfo.minImageCount as StartSwapchain computes it.
RequestedImageCount(c) ==
    IF c.minImageCount + 1 < c.maxImageCount
    THEN c.minImageCount + 1
    ELSE c.minImageCount

\* Image counts vkGetSwapchainImagesKHR can report: at least the requested.
ImageCounts(maxN) ==
    {n \in 1..maxN :
        \E c \in CapabilitySet(2, maxN) : n >= RequestedImageCount(c)}

\* --------------------------------------------------------------- helpers
Slots == 0..(image_count - 1)

NoAlloc == [fence |-> 0, semaphore |-> 0, framebuffer |-> 0, imageView |-> 0,
            commandBuffer |-> 0, elements |-> 0, renderpass |-> 0,
            swapchain |-> 0]

\* Variant of DeviceIdle: vkDeviceWaitIdle returns at once.
NoIdleWait == TRUE

\* vkDeviceWaitIdle returns once no batch is executing.
DeviceIdle == inflight = {}

\* Variant of FenceWait: vkWaitForFences returns at once.
NoFenceWait(f) == TRUE

\* vkWaitForFences on one fence returns once the fence is signaled.
FenceWait(f) == fence[f]

\* No synchronisation object has been handed to a call in this tick.
NoSems == [acquire |-> Null, submit_wait |-> Null, submit_signal |-> Null,
           submit_fence |-> Null, present_wait |-> Null]

\* --------------------------------------------------------------- Wayland
ConfigureSizes == {<<0, 600>>, <<800, 600>>}

Events == [kind : {"toplevel_configure"}, dim : ConfigureSizes]
            \cup {[kind |-> "surface_configure"], [kind |-> "close"]}

EventSeqs == UNION {[1..n -> Events] : n \in 0..MaxEvents}

\* Toplevel configure events with two different non-zero sizes, for the
\* roundtrips of SpecResize.
ResizeSizes == {<<0, 600>>, <<800, 600>>, <<640, 480>>}

ResizeEvents == [kind : {"toplevel_configure"}, dim : ResizeSizes]
                  \cup {[kind |-> "surface_configure"]}

ResizeEventSeqs == UNION {[1..n -> ResizeEvents] : n \in 0..MaxResizeEvents}

\* The listener state: the globals the listeners write.
WlState == [resize |-> resize, ready |-> ready_to_resize, quit |-> quit,
            new_size |-> new_size]

\* Variant of HandleWindowConfigure: the dimensions of the first pending
\* configure are kept.
HandleWindowConfigureFirst(w, e) ==
    IF e.dim[1] # 0 /\ e.dim[2] # 0 /\ ~w.resize
    THEN [w EXCEPT !.resize = TRUE, !.new_size = e.dim]
    ELSE w

HandleWindowConfigure(w, e) ==
    IF e.dim[1] # 0 /\ e.dim[2] # 0
    THEN [w EXCEPT !.resize = TRUE, !.new_size = e.dim]
    ELSE w

\* Variant of HandleWMSConfigure: every surface configure sets the flag.
HandleWMSConfigureAlways(w) == [w EXCEPT !.ready = TRUE]

HandleWMSConfigure(w) ==
    IF w.resize THEN [w EXCEPT !.ready = TRUE] ELSE w

HandleWindowClose(w) == [w EXCEPT !.quit = TRUE]

Dispatch(w, e) ==
    CASE e.kind = "toplevel_configure" -> HandleWindowConfigure(w, e)
      [] e.kind = "surface_configure" -> HandleWMSConfigure(w)
      [] e.kind = "close" -> HandleWindowClose(w)

RECURSIVE DispatchAll(_, _)
DispatchAll(w, evs) ==
    IF evs = <<>> THEN w
    ELSE DispatchAll(Dispatch(w, Head(evs)), Tail(evs))


\* ------------------------------------------------------------- swapchain
EmptyFn == [i \in {} |-> TRUE]

\* Per-image bundle StartSwapchain creates for n images, plus the shared
\* render pass, the swapchain and the elements array.
CreatedBy(n) ==
    [fence |-> n, semaphore |-> 2 * n, framebuffer |-> n, imageView |-> n,
     commandBuffer |-> n, elements |-> 1, renderpass |-> 1, swapchain |-> 1]

\* Variant of DestroyedBy: the acquire semaphores are not destroyed.
DestroyedByOneSemaphore(n) ==
    [fence |-> n, semaphore |-> n, framebuffer |-> n, imageView |-> n,
     commandBuffer |-> n, elements |-> 1, renderpass |-> 1, swapchain |-> 1]

\* What EndSwapchain releases when image_count is n.
DestroyedBy(n) ==
    [fence |-> n, semaphore |-> n + n, framebuffer |-> n, imageView |-> n,
     commandBuffer |-> n, elements |-> 1, renderpass |-> 1, swapchain |-> 1]

AllocPlus(a, b) == [k \in DOMAIN a |-> a[k] + b[k]]
AllocMinus(a, b) == [k \in DOMAIN a |-> a[k] - b[k]]

StartPcs == {"init_start", "acq_start", "pres_start", "resize_start"}
EndPcs == {"acq_end", "pres_end", "resize_end", "disc_end"}
IdlePcs == {"acq_idle", "pres_idle", "resize_idle", "disc_idle"}

\* Variant of AfterIdle: the present-side recreation leaves out EndSwapchain.
AfterIdleNoDestroy(p) ==
    CASE p = "acq_idle" -> "acq_end"
      [] p = "pres_idle" -> "pres_start"
      [] p = "resize_idle" -> "resize_end"
      [] p = "disc_idle" -> "disc_end"

AfterIdle(p) ==
    CASE p = "acq_idle" -> "acq_end"
      [] p = "pres_idle" -> "pres_end"
      [] p = "resize_idle" -> "resize_end"
      [] p = "disc_idle" -> "disc_end"

AfterEnd(p) ==
    CASE p = "acq_end" -> "acq_start"
      [] p = "pres_end" -> "pres_start"
      [] p = "resize_end" -> "resize_start"
      [] p = "disc_end" -> "disc_rest"

\* Variant of AfterStart: the `return` after the acquire-side recreation is
\* missing, so Frame falls through to the rest of the protocol.
AfterStartNoReturn(p) ==
    CASE p = "init_start" -> "resize"
      [] p = "acq_start" -> "image_wait"
      [] p = "pres_start" -> "pres_advance"
      [] p = "resize_start" -> "resize_done"

AfterStart(p) ==
    CASE p = "init_start" -> "resize"
      [] p = "acq_start" -> "sync"
      [] p = "pres_start" -> "pres_advance"
      [] p = "resize_start" -> "resize_done"

\* Variant of StartExtent: every call site passes the initial extent.
StartExtentInitial(p) == <<500, 500>>

\* The extent each call site passes to StartSwapchain.
StartExtent(p) == IF p = "init_start" THEN <<500, 500>> ELSE size

\* Variant of CreatedSignaled: the fences are created unsignaled.
CreatedUnsignaled == FALSE

\* fenceInfo.flags = VK_FENCE_CREATE_SIGNALED_BIT
CreatedSignaled == TRUE

\* Vulkan::StartSwapchain(width, height), the presentation engine creating
\* one of the given numbers of images.
CreateSwapchain(counts) ==
    /\ pc \in StartPcs
    /\ \E n \in counts :
          /\ image_count' = n
          /\ fence' = [i \in 0..(n - 1) |-> CreatedSignaled]
          /\ lastFence' = [i \in 0..(n - 1) |-> Null]
          /\ alloc' = AllocPlus(alloc, CreatedBy(n))
    /\ swapchain' = TRUE
    /\ fb_extent' = StartExtent(pc)
    /\ slotHist' = <<>>
    /\ owed' = IF pc \in {"acq_start", "pres_start"}
               THEN owed - 1 ELSE owed
    /\ ops' = IF pc = "init_start" THEN ops ELSE Append(ops, "create")
    /\ pc' = AfterStart(pc)
    /\ UNCHANGED <<sems, presents, events,
                   resize, ready_to_resize, quit, size, new_size,
                   current_frame, image_index, inflight, selVars,
                   capVars, connVars,
                   auxVars>>

StartSwapchain == CreateSwapchain(ImageCounts(MaxImages))

\* Variant of FirstSlot: EndSwapchain leaves current_frame as it is.
KeptSlot == current_frame

\* current_frame = 0 in EndSwapchain
FirstSlot == 0

\* Vulkan::EndSwapchain()
EndSwapchain ==
    /\ pc \in EndPcs
    /\ alloc' = AllocMinus(alloc, DestroyedBy(image_count))
    /\ fence' = EmptyFn
    /\ lastFence' = EmptyFn
    /\ swapchain' = FALSE
    /\ current_frame' = FirstSlot
    /\ image_index' = 0
    /\ ops' = Append(ops, "destroy")
    /\ pc' = AfterEnd(pc)
    /\ UNCHANGED <<sems, presents, events,
                   resize, ready_to_resize, quit, size, new_size,
                   image_count, fb_extent, inflight, owed, slotHist,
                   selVars, capVars, connVars,
                   auxVars>>

\* Vulkan::WaitForIdle() and the vkDeviceWaitIdle calls of Frame
WaitForIdle ==
    /\ pc \in IdlePcs
    /\ DeviceIdle
    /\ ops' = Append(ops, "wait_idle")
    /\ pc' = AfterIdle(pc)
    /\ UNCHANGED <<sems, presents, events,
                   resize, ready_to_resize, quit, size, new_size, swapchain,
                   image_count, current_frame, image_index, fence, lastFence,
                   fb_extent, inflight, alloc, owed, slotHist,
                   selVars, capVars, connVars,
                   auxVars>>

\* ----------------------------------------------------------- window loop
\* Wayland::ResizeWindow(), up to the WaitForIdle call
ResizeWindow ==
    /\ pc = "resize"
    /\ IF ready_to_resize /\ resize
       THEN /\ size' = new_size
            /\ pc' = "resize_idle"
       ELSE /\ size' = size
            /\ pc' = "frame"
    /\ UNCHANGED <<sems, presents, events,
                   resize, ready_to_resize, quit, new_size, swapchain,
                   image_count, current_frame, image_index, fence, lastFence,
                   fb_extent, inflight, alloc, ops, owed, slotHist,
                   selVars, capVars, connVars,
                   auxVars>>

\* Wayland::ResizeWindow(), after StartSwapchain returned
ResizeDone ==
    /\ pc = "resize_done"
    /\ ready_to_resize' = FALSE
    /\ resize' = FALSE
    /\ pc' = "frame"
    /\ UNCHANGED <<sems, presents, events,
                   quit, size, new_size, swapchain, image_count,
                   current_frame, image_index, fence, lastFence, fb_extent,
                   inflight, alloc, ops, owed,
                   slotHist, selVars, capVars, connVars,
                   auxVars>>

\* Variant of ShouldWindowClose: the loop condition never sees the flag.
ShouldWindowCloseNever(w) == FALSE

\* Wayland::ShouldWindowClose()
ShouldWindowClose(w) == w.quit

\* Wayland::Sync(): one roundtrip dispatches the pending events, one of
\* the given sequences, in order; then the loop condition
\* !Wayland::ShouldWindowClose() is evaluated.
SyncOn(seqs) ==
    /\ pc = "sync"
    /\ \E w \in {DispatchAll(WlState, evs) : evs \in seqs} :
          /\ resize' = w.resize
          /\ ready_to_resize' = w.ready
          /\ quit' = w.quit
          /\ new_size' = w.new_size
          /\ pc' = IF ShouldWindowClose(w) THEN "disc_idle" ELSE "resize"
    /\ ops' = <<>>
    /\ sems' = NoSems
    /\ UNCHANGED <<presents,
                   size, swapchain, image_count, current_frame, image_index,
                   fence, lastFence, fb_extent, inflight, alloc, owed,
                   slotHist, selVars, capVars, connVars,
                   auxVars>>

Sync == SyncOn(EventSeqs) /\ UNCHANGED events

\* Variant of DisconnectCalls: the instance is destroyed before the surface.
DisconnectCallsInstanceFirst ==
    <<"destroy_pool", "destroy_device", "destroy_instance",
      "destroy_surface">>

\* The calls of Vulkan::Disconnect() after EndSwapchain().
DisconnectCalls ==
    <<"destroy_pool", "destroy_device", "destroy_surface",
      "destroy_instance">>

\* Vulkan::Disconnect() after EndSwapchain, then Wayland::Disconnect()
DisconnectRest ==
    /\ pc = "disc_rest"
    /\ ops' = ops \o DisconnectCalls \o <<"wayland_disconnect">>
    /\ pc' = "done"
    /\ UNCHANGED <<sems, presents, events,
                   resize, ready_to_resize, quit, size, new_size, swapchain,
                   image_count, current_frame, image_index, fence, lastFence,
                   fb_extent, inflight, alloc, owed, slotHist,
                   selVars, capVars, connVars,
                   auxVars>>


\* ----------------------------------------------------------------- Frame
Results == {"VK_SUCCESS", "VK_SUBOPTIMAL_KHR", "VK_ERROR_OUT_OF_DATE_KHR"}

\* Variant of NeedsRecreate: VK_SUBOPTIMAL_KHR is treated as success.
NeedsRecreateOutOfDateOnly(r) == r = "VK_ERROR_OUT_OF_DATE_KHR"

\* result == VK_ERROR_OUT_OF_DATE_KHR || result == VK_SUBOPTIMAL_KHR
NeedsRecreate(r) ==
    r = "VK_ERROR_OUT_OF_DATE_KHR" \/ r = "VK_SUBOPTIMAL_KHR"

\* Observer: 1 when the presentation engine signals that the swapchain no
\* longer matches the surface, 0 otherwise.
Signal(r) ==
    IF r \in {"VK_ERROR_OUT_OF_DATE_KHR", "VK_SUBOPTIMAL_KHR"} THEN 1 ELSE 0

\* renderArea.extent of Frame(Wayland::GetWidth(), Wayland::GetHeight())
RenderArea == size

\* Variant of FenceTarget: lastFence of the slot's element is assigned.
FenceTargetSlot == current_frame

\* The image whose lastFence Frame assigns.
FenceTarget == image_index

\* Variant of LastFenceWait: the wait on element->lastFence is left out.
NoLastFenceWait == TRUE

\* The wait on element->lastFence: skipped when it is VK_NULL_HANDLE.
LastFenceWait ==
    lastFence[image_index] # Null => FenceWait(lastFence[image_index])

\* Variant of NextSlot: the slot index advances by two.
NextSlotSkip(cf, n) == (cf + 2) % n

\* current_frame = (current_frame + 1) % image_count
NextSlot(cf, n) == (cf + 1) % n

\* Variant of PresentWaitSemaphore: present waits on the acquire semaphore
\* of the image's element.
PresentWaitImage == image_index

\* presentInfo.pWaitSemaphores = &currentElement->endSemaphore
PresentWaitSemaphore == current_frame

\* The slots whose startSemaphore, endSemaphore and fence vkQueueSubmit is
\* given, and whose endSemaphore vkQueuePresentKHR waits on.
SubmitSems ==
    [sems EXCEPT !.submit_wait = current_frame,
                 !.submit_signal = current_frame,
                 !.submit_fence = current_frame,
                 !.present_wait = PresentWaitSemaphore]

\* Results that report a failure Frame has no branch for.
ErrorResults == {"VK_ERROR_DEVICE_LOST"}

\* Frame(width, height): wait on the slot fence, vkAcquireNextImageKHR
\* returning one of the given results; an image index is written only when
\* an image was acquired.
FrameAcquireOn(results) ==
    /\ pc = "frame"
    /\ FenceWait(current_frame)
    /\ \E r \in results, idx \in Slots :
          /\ owed' = owed + Signal(r)
          /\ ops' = ops \o <<"wait_slot", "acquire", r>>
          /\ image_index' = IF r \in {"VK_SUCCESS", "VK_SUBOPTIMAL_KHR"}
                            THEN idx ELSE image_index
          /\ sems' = [sems EXCEPT !.acquire = current_frame]
          /\ pc' = IF NeedsRecreate(r) THEN "acq_idle" ELSE "image_wait"
    /\ UNCHANGED <<presents, events,
                   resize, ready_to_resize, quit, size, new_size, swapchain,
                   image_count, current_frame, fence, lastFence, fb_extent,
                   inflight, alloc, slotHist,
                   selVars, capVars, connVars,
                   auxVars>>

FrameAcquire == FrameAcquireOn(Results)

\* The calls of Frame between vkAcquireNextImageKHR and vkQueuePresentKHR.
SubmitOps ==
    (IF lastFence[image_index] # Null THEN <<"wait_last">> ELSE <<>>) \o
    <<"set_last", "reset", "record", "submit">>

\* Frame(width, height): from the wait on lastFence to vkQueuePresentKHR
\* returning one of the given results, and the slot advance when present
\* needs no recreation.
FrameSubmitOn(results) ==
    /\ pc = "image_wait"
    /\ LastFenceWait
    /\ lastFence' = [lastFence EXCEPT ![FenceTarget] = current_frame]
    /\ fence' = [fence EXCEPT ![current_frame] = FALSE]
    /\ inflight' = inflight \cup
                      {[slot |-> current_frame, image |-> image_index]}
    /\ sems' = SubmitSems
    /\ \E r \in results :
          /\ owed' = owed + Signal(r)
          /\ IF NeedsRecreate(r)
             THEN /\ pc' = "pres_idle"
                  /\ current_frame' = current_frame
                  /\ ops' = ops \o SubmitOps \o <<"present", r>>
             ELSE /\ pc' = "sync"
                  /\ current_frame' = NextSlot(current_frame, image_count)
                  /\ ops' = ops \o SubmitOps \o <<"present", r, "advance">>
    /\ UNCHANGED <<events,
                   resize, ready_to_resize, quit, size, new_size, swapchain,
                   image_count, image_index, fb_extent, alloc, selVars,
                   capVars, connVars,
                   auxVars>>

FrameSubmitCore == FrameSubmitOn(Results) /\ UNCHANGED presents

FrameSubmit == FrameSubmitCore /\ UNCHANGED slotHist

\* A call of the current tick has reported the loss of the device.
Lost == \E k \in 1..Len(ops) : ops[k] \in ErrorResults

\* Frame(width, height) from the wait on lastFence on, after acquire
\* reported the loss of the device: the wait returns, vkQueueSubmit and
\* vkQueuePresentKHR fail and queue nothing, no result is looked at.
FrameSubmitLost ==
    /\ pc = "image_wait"
    /\ Lost
    /\ lastFence' = [lastFence EXCEPT ![FenceTarget] = current_frame]
    /\ fence' = [fence EXCEPT ![current_frame] = FALSE]
    /\ ops' = ops \o SubmitOps \o
                 <<"present", "VK_ERROR_DEVICE_LOST", "advance">>
    /\ current_frame' = NextSlot(current_frame, image_count)
    /\ sems' = SubmitSems
    /\ pc' = "sync"
    /\ UNCHANGED <<presents, events,
                   resize, ready_to_resize, quit, size, new_size, swapchain,
                   image_count, image_index, fb_extent, inflight, alloc,
                   owed, slotHist, selVars, capVars, connVars,
                   auxVars>>

\* Frame(width, height): the slot advance after a present-side recreation.
FrameAdvance ==
    /\ pc = "pres_advance"
    /\ current_frame' = NextSlot(current_frame, image_count)
    /\ ops' = Append(ops, "advance")
    /\ pc' = "sync"
    /\ UNCHANGED <<sems, presents, events,
                   resize, ready_to_resize, quit, size, new_size, swapchain,
                   image_count, image_index, fence, lastFence, fb_extent,
                   inflight, alloc, owed,
                   slotHist, selVars, capVars, connVars,
                   auxVars>>

\* ------------------------------------------------------------------- GPU
\* The device finishes one submitted batch and signals its fence.
Complete ==
    /\ \E s \in inflight :
          /\ inflight' = inflight \ {s}
          /\ fence' = IF s.slot \in DOMAIN fence
                      THEN [fence EXCEPT ![s.slot] = TRUE]
                      ELSE fence
    /\ UNCHANGED <<sems, presents, events,
                   pc, resize, ready_to_resize, quit, size, new_size,
                   swapchain, image_count, current_frame, image_index,
                   lastFence, fb_extent, alloc, ops, owed, slotHist,
                   selVars, capVars, connVars,
                   auxVars>>

\* ------------------------------------------------------ device selection
DeviceTypes == {"OTHER", "INTEGRATED_GPU", "DISCRETE_GPU", "VIRTUAL_GPU",
                "CPU", "UNKNOWN"}

\* The switch on properties.deviceType; 0 stands for `default: continue`.
TypeScore(t) ==
    CASE t = "OTHER" -> 1
      [] t = "INTEGRATED_GPU" -> 4
      [] t = "DISCRETE_GPU" -> 5
      [] t = "VIRTUAL_GPU" -> 3
      [] t = "CPU" -> 2
      [] OTHER -> 0

\* Variant of Better: an equally scored later device replaces the choice.
BetterOrEqual(score, best) == score >= best

\* if (score > bestScore)
Better(score, best) == score > best

\* One iteration of the physical-device loop of Connect.
SelectStep ==
    /\ conn_pc = "select"
    /\ sel_i < Len(physDevices)
    /\ LET t == physDevices[sel_i + 1]
           score == TypeScore(t) IN
       IF t \in {"OTHER", "INTEGRATED_GPU", "DISCRETE_GPU", "VIRTUAL_GPU",
                 "CPU"} /\ Better(score, bestScore)
       THEN /\ gpu_device' = sel_i + 1
            /\ bestScore' = score
       ELSE UNCHANGED <<gpu_device, bestScore>>
    /\ sel_i' = sel_i + 1
    /\ UNCHANGED <<physDevices, mainVars, capVars, auxVars, geometryShader,
                   instance_result, queueFamilies, qf_i,
                   queue_family_index, device_result, conn_pc>>

\* --------------------------------------------------------------- Connect
\* RateGPU(device): 0 without geometry-shader support, 1 with it.
RateGPU(hasGeometryShader) == IF ~hasGeometryShader THEN 0 ELSE 1

CreateResults == {"VK_SUCCESS", "VK_ERROR_INITIALIZATION_FAILED"}

\* vkCreateInstance and `if (result != VK_SUCCESS) exit(255)`
CreateInstance ==
    /\ conn_pc = "instance"
    /\ \E r \in CreateResults :
          /\ instance_result' = r
          /\ conn_pc' = IF r # "VK_SUCCESS" THEN "exit" ELSE "select"
    /\ UNCHANGED <<mainVars, selVars, capVars, auxVars, geometryShader,
                   queueFamilies, qf_i, queue_family_index, device_result>>

\* Queue families a physical device can report.
FamilySeqs ==
    UNION {[1..n -> [graphics : BOOLEAN, present : BOOLEAN]] :
              n \in 0..MaxFamilies}

\* vkGetPhysicalDeviceQueueFamilyProperties(gpu_device, ...) after the device
\* loop.  With gpu_device still the null handle the call is undefined: it
\* crashes or yields some list.
QueryFamilies ==
    /\ conn_pc = "select"
    /\ sel_i = Len(physDevices)
    /\ \/ /\ queueFamilies' \in FamilySeqs
          /\ conn_pc' = "families"
       \/ /\ gpu_device = 0
          /\ queueFamilies' = queueFamilies
          /\ conn_pc' = "crash"
    /\ UNCHANGED <<mainVars, selVars, capVars, auxVars, geometryShader,
                   instance_result, qf_i, queue_family_index,
                   device_result>>

\* Variant of FamilySuitable: presentation support is not required.
FamilySuitableGraphicsOnly(f) == f.graphics

\* present && (queueFamilies[i].queueFlags & VK_QUEUE_GRAPHICS_BIT)
FamilySuitable(f) == f.present /\ f.graphics

\* One iteration of the queue-family loop of Connect, or its exit.
FamilyStep ==
    /\ conn_pc = "families"
    /\ IF qf_i < Len(queueFamilies)
       THEN IF FamilySuitable(queueFamilies[qf_i + 1])
            THEN /\ queue_family_index' = qf_i
                 /\ qf_i' = qf_i
                 /\ conn_pc' = "device"
            ELSE /\ queue_family_index' = queue_family_index
                 /\ qf_i' = qf_i + 1
                 /\ conn_pc' = conn_pc
       ELSE /\ queue_family_index' = queue_family_index
            /\ qf_i' = qf_i
            /\ conn_pc' = "device"
    /\ UNCHANGED <<mainVars, selVars, capVars, auxVars, geometryShader,
                   instance_result, queueFamilies, device_result>>

\* vkCreateDevice(gpu_device, ...): the result is not looked at.
CreateDevice ==
    /\ conn_pc = "device"
    /\ device_result' \in CreateResults
    /\ conn_pc' = "pool"
    /\ UNCHANGED <<mainVars, selVars, capVars, auxVars, geometryShader,
                   instance_result, queueFamilies, qf_i,
                   queue_family_index>>

\* vkGetDeviceQueue, vkCreateCommandPool, return true.  With a logical
\* device whose creation failed the calls are undefined: they crash or
\* return.
CreatePool ==
    /\ conn_pc = "pool"
    /\ \/ conn_pc' = "done"
       \/ /\ device_result # "VK_SUCCESS"
          /\ conn_pc' = "crash"
    /\ UNCHANGED <<mainVars, selVars, capVars, auxVars, geometryShader,
                   instance_result, queueFamilies, qf_i,
                   queue_family_index, device_result>>

\* ------------------------------------------------- requested image count
\* StartSwapchain: image_count from the queried capabilities.
ComputeImageCount ==
    /\ caps_pc = "query"
    /\ requested' = RequestedImageCount(capabilities)
    /\ caps_pc' = "create"
    /\ UNCHANGED <<capabilities, mainVars, selVars, connVars, auxVars>>

\* ---------------------------------------------------- Errors.cpp / .hpp
\* if (error_stack.size() == 15)
StackLimit == 15

failed_null_assertion == "failed_null_assertion"

fna_string == "failed_null_assertion"

fna_severity == "error"

\* enum Severity, by enumerator value
Severities == <<"infer", "log", "warning", "error", "panic">>

\* std::to_string(severity): the enumerator's value
SeverityValue(severity) ==
    CHOOSE v \in 0..4 : Severities[v + 1] = severity

GetCodeString(code) == fna_string

GetCodeSeverity(code) == fna_severity

\* Error::Error: the member initialisers copy the arguments; the body's
\* `severity = GetCodeSeverity(code)` assigns the parameter of that name,
\* which hides the member, so the member keeps the argument.
Error(code, severity, line) ==
    LET parameter == IF severity = "infer" THEN GetCodeSeverity(code)
                     ELSE severity
    IN  [code |-> code, severity |-> severity, line |-> line]

\* Error::GetSeverity
Error_GetSeverity(e) == e.severity

\* No Error object.
NoError == [code |-> "none", severity |-> "none", line |-> 0]

\* Stringify's static before its initialisation.
NotStringified == <<>>

\* std::format over the location, GetCodeString(code) and
\* std::to_string(severity); the location is its line.
Format(e) == <<e.line, GetCodeString(e.code), SeverityValue(e.severity)>>

NoPush == [call |-> "none", thrown |-> FALSE]

NoCall == [subject |-> NoError, returned |-> NotStringified]

\* Variant of Evicted: erase the newest entry.
EvictedNewest(stack) == SubSeq(stack, 1, Len(stack) - 1)

\* error_stack.erase(error_stack.begin())
Evicted(stack) == Tail(stack)

\* Variant of Throws: errors throw as well.
ThrowsOnError(e) == Error_GetSeverity(e) \in {"error", "panic"}

\* if (error.GetSeverity() == Information::panic) throw PanicException
Throws(e) == Error_GetSeverity(e) = "panic"

\* The body shared by both Push overloads: evict at the limit, push_back,
\* then throw on panic.
PushBody(call, e) ==
    /\ error_stack' =
          Append(IF Len(error_stack) = StackLimit
                 THEN Evicted(error_stack) ELSE error_stack, e)
    /\ pushed' = Append(pushed, e)
    /\ push_result' = [call |-> call, thrown |-> Throws(e)]
    /\ stringify_call' = NoCall
    /\ UNCHANGED <<stringified_error, last_error>>
    /\ UNCHANGED <<mainVars, selVars, capVars, connVars, probVars>>

\* Push(Error error), the error built by the caller
PushError(sevs, lines, max) ==
    /\ Len(pushed) < max
    /\ \E severity \in sevs, line \in lines :
          PushBody("Push(Error)",
                   Error(failed_null_assertion, severity, line))

\* Push(code, severity, context, location)
PushCode(sevs, lines, max) ==
    /\ Len(pushed) < max
    /\ \E severity \in sevs, line \in lines :
          LET constructed_error ==
                  Error(failed_null_assertion, severity, line)
          IN  PushBody("Push(Code)", constructed_error)

\* Pull, called on a non-empty stack
Pull ==
    /\ Len(error_stack) > 0
    /\ last_error' = error_stack[Len(error_stack)]
    /\ error_stack' = SubSeq(error_stack, 1, Len(error_stack) - 1)
    /\ push_result' = NoPush
    /\ stringify_call' = NoCall
    /\ UNCHANGED <<stringified_error, pushed>>
    /\ UNCHANGED <<mainVars, selVars, capVars, connVars, probVars>>

\* The Error objects a caller holds: Get(index) for every index of the
\* stack, and the error Pull returned.
HeldErrors ==
    {error_stack[i] : i \in DOMAIN error_stack} \cup
    ({last_error} \ {NoError})

\* Error::Stringify on a held error: the static is initialised by the
\* first call only, and every call returns the static.
Stringify ==
    \E e \in HeldErrors :
        /\ stringified_error' =
              IF stringified_error = NotStringified THEN Format(e)
              ELSE stringified_error
        /\ stringify_call' =
              [subject |-> e, returned |-> stringified_error']
        /\ push_result' = NoPush
        /\ UNCHANGED <<error_stack, pushed, last_error>>
        /\ UNCHANGED <<mainVars, selVars, capVars, connVars, probVars>>

InitErrIdle ==
    /\ error_stack = <<>>
    /\ stringified_error = NotStringified
    /\ pushed = <<>>
    /\ push_result = NoPush
    /\ last_error = NoError
    /\ stringify_call = NoCall

\* ---------------------------------------------------------------- Errors.c
\* (size_t)-1; it stands above every count and index reached here.
SIZE_MAX == 2147483647

\* The null pointer as the element Ir_GetProblem returns.
nullptr == -1

ProblemCodes == {"ir_no_error", "ir_unexpected_param",
                 "ir_failed_wayland_connection", "ir_failed_file_open"}

Overrides == {"ir_override_infer", "ir_override_warning",
              "ir_override_error", "ir_override_panic"}

FatalityLevels == {"ir_just_panic", "ir_include_errors", "ir_all_problems"}

problem_severities ==
    [ir_no_error |-> "ir_success",
     ir_unexpected_param |-> "ir_warning",
     ir_failed_wayland_connection |-> "ir_panic",
     ir_failed_file_open |-> "ir_error"]

GetFunctionSilenced(function) ==
    \E i \in DOMAIN silenced_functions : silenced_functions[i] = function

GetSeverity(code, override) ==
    CASE override = "ir_override_infer" -> problem_severities[code]
      [] override = "ir_override_warning" -> "ir_warning"
      [] override = "ir_override_error" -> "ir_error"
      [] override = "ir_override_panic" -> "ir_panic"

\* Variant of GetFatality without the silenced-function test.
GetFatalityUncaught(function, severity) ==
    IF severity = "ir_panic" THEN TRUE
    ELSE IF fatality_level = "ir_just_panic" THEN FALSE
    ELSE IF fatality_level # "ir_all_problems" /\ severity = "ir_warning"
         THEN FALSE
    ELSE TRUE

GetFatality(function, severity) ==
    IF severity = "ir_panic" THEN TRUE
    ELSE IF fatality_level = "ir_just_panic" THEN FALSE
    ELSE IF GetFunctionSilenced(function) THEN FALSE
    ELSE IF fatality_level # "ir_all_problems" /\ severity = "ir_warning"
         THEN FALSE
    ELSE TRUE

\* memmove(&reported_problems[0], &reported_problems[1], count - 1): the
\* length is in bytes. An ir_problem_t is 16 bytes, code at offset 0 and
\* severity at offset 4; a field is moved once its lowest byte is, the
\* enumerators being below 256 on a little-endian target.
Moved(problems) ==
    LET bytes == Len(problems) - 1
    IN  [k \in 1..Len(problems) |->
            [code |-> IF bytes > 16 * (k - 1) THEN problems[k + 1].code
                      ELSE problems[k].code,
             severity |-> IF bytes > 16 * (k - 1) + 4
                          THEN problems[k + 1].severity
                          ELSE problems[k].severity]]

\* Variant of Stored: at the maximum the oldest problem is dropped and the
\* array shrinks to the maximum.
StoredTrimmed(problems, error) ==
    IF Len(problems) + 1 <= max_reported_problems
    THEN Append(problems, error)
    ELSE Append(SubSeq(problems,
                       Len(problems) - max_reported_problems + 2,
                       Len(problems)), error)

\* The tail of Ir_ReportProblem_: append below the maximum, else move and
\* overwrite the last element.
Stored(problems, error) ==
    IF Len(problems) + 1 <= max_reported_problems
    THEN Append(problems, error)
    ELSE [Moved(problems) EXCEPT ![Len(problems)] = error]

\* Ir_ReportProblem_ for a code other than ir_no_error: Ir_Log_ aborts on
\* a panic, abort() follows GetFatality, otherwise the problem is stored.
ReportOutcome(code, override, function) ==
    LET error == [code |-> code, severity |-> GetSeverity(code, override)]
    IN  IF GetFatality(function, error.severity)
        THEN [aborted |-> TRUE, problems |-> reported_problems]
        ELSE [aborted |-> FALSE,
              problems |-> Stored(reported_problems, error)]

\* Ir_ReportProblem_: ir_no_error is answered by a report of
\* ir_unexpected_param made from Ir_ReportProblem_ itself.
Ir_ReportProblem_(code, override, function) ==
    IF code = "ir_no_error"
    THEN ReportOutcome("ir_unexpected_param", "ir_override_infer",
                       "Ir_ReportProblem_")
    ELSE ReportOutcome(code, override, function)

\* A report leaves the array within max elements: it appends below max or
\* overwrites at the maximum set.
Room(max) ==
    \/ Len(reported_problems) < max
    \/ Len(reported_problems) + 1 > max_reported_problems

NoGot == [called |-> FALSE, index |-> 0, count |-> 0, returned |-> FALSE,
          element |-> nullptr]

NoReport == [called |-> FALSE, function |-> "", code |-> "",
             override |-> ""]

\* The indexes handed to Ir_GetProblem and Ir_PullProblem.
Indexes(max) == 0..max \cup {SIZE_MAX}

Ir_SetProblemFatality ==
    /\ ~aborted
    /\ \E fatality \in FatalityLevels : fatality_level' = fatality
    /\ got' = NoGot
    /\ last_report' = NoReport
    /\ UNCHANGED <<max_reported_problems, reported_problems,
                   silenced_functions, aborted, released>>
    /\ UNCHANGED <<mainVars, selVars, capVars, connVars, errVars>>

Ir_SetMaxProblems(caps) ==
    /\ ~aborted
    /\ \E max \in caps :
          max_reported_problems' = IF max = 0 THEN SIZE_MAX ELSE max
    /\ got' = NoGot
    /\ last_report' = NoReport
    /\ UNCHANGED <<fatality_level, reported_problems, silenced_functions,
                   aborted, released>>
    /\ UNCHANGED <<mainVars, selVars, capVars, connVars, errVars>>

\* The Ir_ReportProblem macro used in one of the given functions.
Ir_ReportProblem(functions, max) ==
    /\ ~aborted
    /\ Room(max)
    /\ \E code \in ProblemCodes, override \in Overrides,
          function \in functions :
          LET out == Ir_ReportProblem_(code, override, function)
          IN  /\ reported_problems' = out.problems
              /\ aborted' = out.aborted
              /\ last_report' = [called |-> TRUE, function |-> function,
                                 code |-> code, override |-> override]
    /\ got' = NoGot
    /\ UNCHANGED <<fatality_level, max_reported_problems,
                   silenced_functions, released>>
    /\ UNCHANGED <<mainVars, selVars, capVars, connVars, errVars>>

Ir_GetProblem(max) ==
    /\ ~aborted
    /\ Room(max)
    /\ \E index \in Indexes(max) :
          LET count == Len(reported_problems)
              out == ReportOutcome("ir_unexpected_param",
                                   "ir_override_infer", "Ir_GetProblem")
          IN  IF index = SIZE_MAX /\ count # 0
              THEN /\ got' = [called |-> TRUE, index |-> index,
                              count |-> count, returned |-> TRUE,
                              element |-> count]
                   /\ UNCHANGED <<reported_problems, aborted>>
              ELSE IF index >= count
              THEN /\ got' = [called |-> TRUE, index |-> index,
                              count |-> count, returned |-> ~out.aborted,
                              element |-> nullptr]
                   /\ reported_problems' = out.problems
                   /\ aborted' = out.aborted
              ELSE /\ got' = [called |-> TRUE, index |-> index,
                              count |-> count, returned |-> TRUE,
                              element |-> index]
                   /\ UNCHANGED <<reported_problems, aborted>>
    /\ last_report' = NoReport
    /\ UNCHANGED <<fatality_level, max_reported_problems,
                   silenced_functions, released>>
    /\ UNCHANGED <<mainVars, selVars, capVars, connVars, errVars>>

\* reported_problems without the element at the 0-based index
Removed(problems, index) ==
    SubSeq(problems, 1, index) \o
    SubSeq(problems, index + 2, Len(problems))

Ir_PullProblem(max) ==
    /\ ~aborted
    /\ Room(max)
    /\ \E index \in Indexes(max) :
          LET count == Len(reported_problems)
              at == IF index = SIZE_MAX THEN count - 1 ELSE index
              out == ReportOutcome("ir_unexpected_param",
                                   "ir_override_infer", "Ir_PullProblem")
          IN  IF count = 0 \/ at >= count
              THEN /\ reported_problems' = out.problems
                   /\ aborted' = out.aborted
              ELSE /\ reported_problems' = Removed(reported_problems, at)
                   /\ UNCHANGED aborted
    /\ got' = NoGot
    /\ last_report' = NoReport
    /\ UNCHANGED <<fatality_level, max_reported_problems,
                   silenced_functions, released>>
    /\ UNCHANGED <<mainVars, selVars, capVars, connVars, errVars>>

\* The function names handed to Ir_CatchProblems and Ir_ReleaseProblems.
CatchNames == {"main", "Ir_ReportProblem_"}

Ir_CatchProblems(max) ==
    /\ ~aborted
    /\ Len(silenced_functions) < max
    /\ \E function_name \in CatchNames :
          /\ silenced_functions' =
                Append(silenced_functions, function_name)
          /\ released' = released \ {function_name}
    /\ got' = NoGot
    /\ last_report' = NoReport
    /\ UNCHANGED <<fatality_level, max_reported_problems,
                   reported_problems, aborted>>
    /\ UNCHANGED <<mainVars, selVars, capVars, connVars, errVars>>

\* The 1-based position of the first occurrence of the name, 0 if none.
FirstOf(function_name) ==
    IF GetFunctionSilenced(function_name)
    THEN CHOOSE i \in DOMAIN silenced_functions :
            /\ silenced_functions[i] = function_name
            /\ \A j \in 1..(i - 1) : silenced_functions[j] # function_name
    ELSE 0

\* Ir_ReleaseProblems(NULL): Ir_Free reports ir_unexpected_param when the
\* list is already null.
ReleaseAll(max) ==
    /\ ~aborted
    /\ Room(max)
    /\ LET out == ReportOutcome("ir_unexpected_param",
                                "ir_override_infer", "Ir_Free")
       IN  IF silenced_functions = <<>>
           THEN /\ reported_problems' = out.problems
                /\ aborted' = out.aborted
           ELSE UNCHANGED <<reported_problems, aborted>>
    /\ silenced_functions' = <<>>
    /\ released' = released \cup
          {silenced_functions[i] : i \in DOMAIN silenced_functions}
    /\ got' = NoGot
    /\ last_report' = NoReport
    /\ UNCHANGED <<fatality_level, max_reported_problems>>
    /\ UNCHANGED <<mainVars, selVars, capVars, connVars, errVars>>

\* Ir_ReleaseProblems(function_name): the first occurrence is removed.
Ir_ReleaseProblems ==
    /\ ~aborted
    /\ \E function_name \in CatchNames :
          LET collapse == GetFunctionSilenced(function_name)
          IN  /\ silenced_functions' =
                    IF collapse
                    THEN Removed(silenced_functions,
                                 FirstOf(function_name) - 1)
                    ELSE silenced_functions
              /\ released' = IF collapse
                             THEN released \cup {function_name}
                             ELSE released
    /\ got' = NoGot
    /\ last_report' = NoReport
    /\ UNCHANGED <<fatality_level, max_reported_problems,
                   reported_problems, aborted>>
    /\ UNCHANGED <<mainVars, selVars, capVars, connVars, errVars>>

InitProbIdle ==
    /\ fatality_level = "ir_just_panic"
    /\ max_reported_problems = SIZE_MAX
    /\ reported_problems = <<>>
    /\ silenced_functions = <<>>
    /\ aborted = FALSE
    /\ got = NoGot
    /\ last_report = NoReport
    /\ released = {}

\* -------------------------------------------------------- specifications
InitMain ==
    /\ pc = "init_start"
    /\ resize = FALSE
    /\ ready_to_resize = FALSE
    /\ quit = FALSE
    /\ size = <<0, 0>>
    /\ new_size = <<0, 0>>
    /\ swapchain = FALSE
    /\ image_count = 0
    /\ current_frame = 0
    /\ image_index = 0
    /\ fence = EmptyFn
    /\ lastFence = EmptyFn
    /\ fb_extent = <<0, 0>>
    /\ inflight = {}
    /\ alloc = NoAlloc
    /\ ops = <<>>
    /\ owed = 0
    /\ slotHist = <<>>
    /\ sems = NoSems
    /\ presents = {}
    /\ events = <<>>

InitSelIdle ==
    /\ physDevices = <<>>
    /\ sel_i = 0
    /\ bestScore = 0
    /\ gpu_device = 0

InitCapsIdle ==
    /\ capabilities = [minImageCount |-> 1, maxImageCount |-> 0]
    /\ requested = 0
    /\ caps_pc = "idle"

\* Connect has returned: device and command pool exist.
InitConnIdle ==
    /\ conn_pc = "done"
    /\ geometryShader = <<>>
    /\ instance_result = "VK_SUCCESS"
    /\ queueFamilies = <<>>
    /\ qf_i = 0
    /\ queue_family_index = 0
    /\ device_result = "VK_SUCCESS"

InitVulkan == InitMain /\ InitSelIdle /\ InitCapsIdle /\ InitConnIdle

Init == InitVulkan /\ InitErrIdle /\ InitProbIdle

Next ==
    \/ StartSwapchain
    \/ EndSwapchain
    \/ WaitForIdle
    \/ ResizeWindow
    \/ ResizeDone
    \/ Sync
    \/ DisconnectRest
    \/ FrameAcquire
    \/ FrameSubmit
    \/ FrameAdvance
    \/ Complete

Spec == Init /\ [][Next]_vars

\* The steady loop: the presentation engine returns VK_SUCCESS to every
\* acquire and present and the compositor has no event pending, so no
\* recreation happens; slotHist observes the slot of each Frame call.
SteadyStart == CreateSwapchain(ImageCounts(MaxSteadyImages))

SteadyAcquire == FrameAcquire /\ pc' = "image_wait"

SteadySubmit ==
    /\ FrameSubmitCore
    /\ pc' = "sync"
    /\ slotHist' = IF Len(slotHist) < MaxHist
                   THEN Append(slotHist, current_frame)
                   ELSE slotHist

SteadyFrame == FrameSubmit /\ pc' = "sync"

SteadySync == Sync /\ UNCHANGED <<resize, ready_to_resize, quit, new_size>>

NextSteady ==
    \/ SteadyStart
    \/ ResizeWindow
    \/ SteadyAcquire
    \/ SteadySubmit
    \/ SteadySync
    \/ Complete

SpecSteady == Init /\ [][NextSteady]_vars

\* The window loop with a device that can be lost, up to the end of the
\* first tick in which a call reports the loss.
LostAcquire == FrameAcquireOn(Results \cup ErrorResults)

LostSubmit ==
    /\ ~Lost
    /\ FrameSubmitOn(Results \cup ErrorResults)
    /\ UNCHANGED <<slotHist, presents>>

LostSync == ~Lost /\ Sync

NextLost ==
    \/ StartSwapchain
    \/ EndSwapchain
    \/ WaitForIdle
    \/ ResizeWindow
    \/ ResizeDone
    \/ LostSync
    \/ DisconnectRest
    \/ LostAcquire
    \/ LostSubmit
    \/ FrameSubmitLost
    \/ FrameAdvance
    \/ Complete

SpecLost == Init /\ [][NextLost]_vars

\* Connect's device loop over every enumeration of up to MaxDevices devices.
InitSelect ==
    /\ InitMain
    /\ InitCapsIdle
    /\ InitErrIdle
    /\ InitProbIdle
    /\ physDevices \in UNION {[1..n -> DeviceTypes] : n \in 0..MaxDevices}
    /\ geometryShader \in [1..Len(physDevices) -> BOOLEAN]
    /\ sel_i = 0
    /\ bestScore = 0
    /\ gpu_device = 0
    /\ conn_pc = "select"
    /\ instance_result = "VK_SUCCESS"
    /\ queueFamilies = <<>>
    /\ qf_i = 0
    /\ queue_family_index = 0
    /\ device_result = "VK_SUCCESS"

NextSelect == SelectStep

SpecSelect == InitSelect /\ [][NextSelect]_vars

\* Connect from vkCreateInstance to its return, over every enumeration of up
\* to MaxConnDevices devices and MaxFamilies queue families.
InitConnect ==
    /\ InitMain
    /\ InitCapsIdle
    /\ InitErrIdle
    /\ InitProbIdle
    /\ physDevices \in
          UNION {[1..n -> DeviceTypes] : n \in 0..MaxConnDevices}
    /\ geometryShader \in [1..Len(physDevices) -> BOOLEAN]
    /\ sel_i = 0
    /\ bestScore = 0
    /\ gpu_device = 0
    /\ conn_pc = "instance"
    /\ instance_result = "VK_SUCCESS"
    /\ queueFamilies = <<>>
    /\ qf_i = 0
    /\ queue_family_index = 0
    /\ device_result = "VK_SUCCESS"

NextConnect ==
    \/ CreateInstance
    \/ SelectStep
    \/ QueryFamilies
    \/ FamilyStep
    \/ CreateDevice
    \/ CreatePool

SpecConnect == InitConnect /\ [][NextConnect]_vars

\* StartSwapchain's image-count computation over every capability pair.
InitCaps ==
    /\ InitMain
    /\ InitSelIdle
    /\ InitConnIdle
    /\ InitErrIdle
    /\ InitProbIdle
    /\ capabilities \in CapabilitySet(MaxCapMin, MaxCapMax)
    /\ requested = 0
    /\ caps_pc = "query"

NextCaps == ComputeImageCount

SpecCaps == InitCaps /\ [][NextCaps]_vars

\* Push after Push on the C++ error stack, past the stack limit; the two
\* overloads are given different severities.
NextStack ==
    \/ PushError({"infer"}, {1}, MaxPushes)
    \/ PushCode({"panic"}, {1}, MaxPushes)

SpecStack == Init /\ [][NextStack]_vars

\* Push, Pull and Stringify on a short C++ error stack.
ErrSeverities == {"infer", "error", "panic"}

ErrLines == {1, 2}

NextErrors ==
    \/ PushError(ErrSeverities, ErrLines, MaxErrors)
    \/ PushCode(ErrSeverities, ErrLines, MaxErrors)
    \/ Pull
    \/ Stringify

SpecErrors == Init /\ [][NextErrors]_vars

\* The C problem stack under the default fatality level: reports from
\* main, pulls, gets and changes of the maximum.
NextProblems ==
    \/ Ir_SetMaxProblems(0..MaxCap)
    \/ Ir_ReportProblem({"main"}, MaxProblems)
    \/ Ir_PullProblem(MaxProblems)
    \/ Ir_GetProblem(MaxProblems)

SpecProblems == Init /\ [][NextProblems]_vars

\* Catching and releasing function names around reports, under every
\* fatality level.
NextCatch ==
    \/ Ir_SetProblemFatality
    \/ Ir_CatchProblems(MaxSilenced)
    \/ Ir_ReleaseProblems
    \/ ReleaseAll(MaxCaught)
    \/ Ir_ReportProblem(CatchNames, MaxCaught)

SpecCatch == Init /\ [][NextCatch]_vars

\* The window loop under resize events only: every swapchain has one
\* image, every acquire and present returns VK_SUCCESS, the window is not
\* closed, and the events of each roundtrip are observed.
ResizeStart == CreateSwapchain({1})

ResizeSync ==
    \E evs \in ResizeEventSeqs : SyncOn({evs}) /\ events' = evs

NextResize ==
    \/ ResizeStart
    \/ EndSwapchain
    \/ WaitForIdle
    \/ ResizeWindow
    \/ ResizeDone
    \/ ResizeSync
    \/ SteadyAcquire
    \/ SteadyFrame
    \/ Complete

SpecResize == Init /\ [][NextResize]_vars

\* The window loop with the presents the presentation engine holds:
\* every acquire and present returns VK_SUCCESS and no event is pending.
\* vkAcquireNextImageKHR returns an image no queued present holds.
PresentAcquire ==
    /\ FrameAcquireOn({"VK_SUCCESS"})
    /\ image_index' \notin {p.image : p \in presents}

\* vkQueueSubmit signals the slot's endSemaphore and vkQueuePresentKHR
\* queues a present of the acquired image that waits on it.
PresentSubmit ==
    /\ FrameSubmitOn({"VK_SUCCESS"})
    /\ presents' = presents \cup
                      {[sem |-> PresentWaitSemaphore, image |-> image_index]}
    /\ UNCHANGED slotHist

\* The presentation engine consumes one queued present whose batch is
\* complete: it has waited on the semaphore and gives the image back.
\* The presents are consumed in any order.
Consume ==
    /\ \E p \in presents :
          /\ [slot |-> p.sem, image |-> p.image] \notin inflight
          /\ presents' = presents \ {p}
    /\ UNCHANGED <<pc, resize, ready_to_resize, quit, size, new_size,
                   swapchain, image_count, current_frame, image_index,
                   fence, lastFence, fb_extent, inflight, alloc, ops,
                   owed, slotHist, sems, events,
                   selVars, capVars, connVars,
                   auxVars>>

NextPresent ==
    \/ StartSwapchain
    \/ ResizeWindow
    \/ PresentAcquire
    \/ PresentSubmit
    \/ SteadySync
    \/ Complete
    \/ Consume

SpecPresent == Init /\ [][NextPresent]_vars

\* The window loop under fair scheduling: the device eventually completes
\* every submitted batch, vkAcquireNextImageKHR eventually returns, and
\* the thread of the loop goes on whenever its next call can return.
SpecFair ==
    /\ Init
    /\ [][Next]_vars
    /\ WF_vars(Complete)
    /\ WF_vars(FrameAcquire)
    /\ WF_vars(FrameSubmit)
    /\ WF_vars(FrameAdvance)
    /\ WF_vars(WaitForIdle)
    /\ WF_vars(EndSwapchain)
    /\ WF_vars(StartSwapchain)

TypeOK ==
    /\ pc \in StartPcs \cup EndPcs \cup IdlePcs \cup
              {"resize", "resize_done", "frame", "image_wait",
               "pres_advance", "sync", "disc_rest", "done"}
    /\ DOMAIN fence = DOMAIN lastFence
    /\ swapchain => DOMAIN fence = Slots
    /\ \A i \in DOMAIN lastFence : lastFence[i] \in Slots \cup {Null}


\* ------------------------------------------------------------ properties
\* The calls of the current tick made by Frame (from its slot-fence wait).
RECURSIVE FrameOps(_)
FrameOps(o) ==
    IF o = <<>> \/ Head(o) = "wait_slot" THEN o ELSE FrameOps(Tail(o))

Count(o, x) == Cardinality({k \in 1..Len(o) : o[k] = x})

IsPrefix(a, b) == Len(a) <= Len(b) /\ SubSeq(b, 1, Len(a)) = a

StaleResults == {"VK_ERROR_OUT_OF_DATE_KHR", "VK_SUBOPTIMAL_KHR"}

RecreateCycle == <<"wait_idle", "destroy", "create">>

\* C1: at the moment Frame submits the command buffer of image i, no
\* earlier submission that targeted image i is still in flight.
C1_NoOverlappingSubmit ==
    [][(pc = "image_wait" /\ pc' # "image_wait")
          => \A s \in inflight : s.image # image_index]_vars

\* C1 witness: a tick has waited on the lastFence of an image that was last
\* used by another slot, and two submissions on distinct images are in
\* flight.
C1_Witness ==
    /\ pc = "sync"
    /\ Count(ops, "wait_last") = 1
    /\ lastFence[image_index] # image_index
    /\ Cardinality(inflight) >= 2

\* C2 (as stated): every non-null lastFence[i] is a slot fence that is
\* currently unsignaled, and no in-flight submission with that fence
\* targets another image.
C2_Original ==
    \A i \in DOMAIN lastFence :
        \/ lastFence[i] = Null
        \/ /\ lastFence[i] \in Slots
           /\ ~fence[lastFence[i]]
           /\ \A s \in inflight : s.slot = lastFence[i] => s.image = i

\* C2 (amended): every lastFence[i] is null or one slot fence of the current
\* generation; while a submission that targets image i is in flight,
\* lastFence[i] is the fence of that submission and it is unsignaled.
C2_LastFence ==
    \A i \in DOMAIN lastFence :
        /\ lastFence[i] \in Slots \cup {Null}
        /\ \A s \in inflight :
              s.image = i => lastFence[i] = s.slot /\ ~fence[lastFence[i]]

\* C2 witness: one image has a signaled lastFence while a submission on
\* another image is in flight.
C2_Witness ==
    /\ \E i \in DOMAIN lastFence : lastFence[i] # Null /\ fence[lastFence[i]]
    /\ \E s \in inflight : lastFence[s.image] = s.slot

\* C3: Frame performs one recreation per out-of-date / suboptimal result:
\* at the end of every tick no signal is unanswered, a tick performs at
\* most one recreation, and none when acquire and present both succeed.
C3_RecreationPerSignal ==
    /\ owed \in {0, 1}
    /\ pc = "sync" =>
          /\ owed = 0
          /\ Count(FrameOps(ops), "create") =
                Count(ops, "VK_ERROR_OUT_OF_DATE_KHR") +
                Count(ops, "VK_SUBOPTIMAL_KHR")
          /\ Count(FrameOps(ops), "create") <= 1
          /\ Count(FrameOps(ops), "create") = Count(FrameOps(ops), "destroy")
          /\ Count(ops, "VK_SUCCESS") = 2 =>
                Count(FrameOps(ops), "create") = 0

\* C3 witness: a tick whose present result triggered a recreation ended.
C3_Witness ==
    /\ pc = "sync"
    /\ Count(ops, "present") = 1
    /\ Count(FrameOps(ops), "create") = 1

\* The acquire of the current tick returned out-of-date or suboptimal.
AbortedTick ==
    \E k \in 1..(Len(ops) - 1) :
        ops[k] = "acquire" /\ ops[k + 1] \in StaleResults

\* C4: on a tick whose acquire is out-of-date or suboptimal Frame only waits
\* for device idle, destroys and recreates the swapchain and returns: no
\* fence reset, lastFence assignment, recording, submit or present.
C4_AbortedTick ==
    /\ [](AbortedTick =>
            /\ \E r \in StaleResults :
                  /\ IsPrefix(FrameOps(ops),
                        <<"wait_slot", "acquire", r>> \o RecreateCycle)
                  /\ pc = "sync" =>
                        FrameOps(ops) =
                            <<"wait_slot", "acquire", r>> \o RecreateCycle
            /\ pc = "acq_end" => inflight = {}
            /\ pc = "sync" =>
                  /\ inflight = {}
                  /\ \A i \in Slots : fence[i] /\ lastFence[i] = Null)
    /\ [][(pc = "frame" /\ pc' = "acq_idle")
            => UNCHANGED <<fence, lastFence, inflight>>]_vars

\* C4 witness: an aborted tick has returned.
C4_Witness == pc = "sync" /\ AbortedTick /\ Count(ops, "create") = 1


C6_FrameEffect ==
    /\ [][(swapchain /\ swapchain') =>
            \A j \in DOMAIN lastFence :
                lastFence'[j] # lastFence[j] =>
                    /\ pc = "image_wait"
                    /\ j = image_index
                    /\ lastFence'[j] = current_frame]_vars
    /\ [][(pc = "image_wait" /\ pc' = "sync") =>
            lastFence'[image_index] = current_frame]_vars

\* C6 witness: a Frame call ended that acquired an image out of step with
\* the slot while another image keeps its earlier lastFence.
C6_Witness ==
    /\ pc = "sync"
    /\ Count(ops, "submit") = 1
    /\ Count(ops, "create") = 0
    /\ lastFence[image_index] # image_index
    /\ \E j \in Slots \ {image_index} : lastFence[j] # Null

\* C7: a tick that starts with a pending resize performs exactly one
\* wait-idle / destroy / create cycle at the new extent before Frame, clears
\* both flags and records with framebuffers and render area at that extent;
\* a tick without a pending resize performs no resize recreation, and the
\* flags stay clear until a new toplevel configure arrives.
C7_ResizeTick ==
    /\ [](/\ pc = "frame" => ops \in {<<>>, RecreateCycle}
          /\ (pc \in {"frame", "image_wait"} /\ IsPrefix(RecreateCycle, ops))
                => /\ fb_extent = new_size
                   /\ RenderArea = new_size
                   /\ ~resize
                   /\ ~ready_to_resize
          /\ pc = "resize_end" => inflight = {})
    /\ [][(pc = "resize" /\ pc' # "resize") =>
            /\ (resize /\ ready_to_resize) <=> pc' = "resize_idle"
            /\ ~(resize /\ ready_to_resize) =>
                  pc' = "frame" /\ UNCHANGED <<fb_extent, size, ops>>]_vars
    /\ [][(pc = "sync" /\ ~resize /\ ~resize') => ~ready_to_resize']_vars

\* C7 witness: a tick resized to 800x600 and then recorded a frame.
C7_Witness ==
    /\ pc = "sync"
    /\ IsPrefix(RecreateCycle, ops)
    /\ Count(ops, "record") = 1
    /\ Count(ops, "create") = 1
    /\ fb_extent = <<800, 600>>
    /\ RenderArea = <<800, 600>>

\* C8: while a swapchain exists exactly image_count bundles, one render
\* pass and one swapchain are allocated; after EndSwapchain nothing is.
C8_RoundTrip ==
    /\ swapchain =>
          alloc = [fence |-> image_count, semaphore |-> 2 * image_count,
                   framebuffer |-> image_count, imageView |-> image_count,
                   commandBuffer |-> image_count, elements |-> 1,
                   renderpass |-> 1, swapchain |-> 1]
    /\ ~swapchain => \A k \in DOMAIN alloc : alloc[k] = 0

\* C8 witness: EndSwapchain has released a two-image swapchain.
C8_Witness ==
    /\ pc = "disc_rest"
    /\ image_count = 2
    /\ alloc.fence = 0
    /\ alloc.semaphore = 0

\* minImageCount + 1 clamped to maxImageCount, 0 meaning no upper limit.
ClampedImageCount(c) ==
    IF c.maxImageCount = 0 THEN c.minImageCount + 1
    ELSE IF c.minImageCount + 1 > c.maxImageCount THEN c.maxImageCount
    ELSE c.minImageCount + 1

\* C9: the requested image count is minImageCount + 1 clamped to
\* maxImageCount.
C9_Clamp ==
    caps_pc = "create" => requested = ClampedImageCount(capabilities)

\* The priority order of the device classes, best first.
ClassOrder == <<"DISCRETE_GPU", "INTEGRATED_GPU", "VIRTUAL_GPU", "CPU",
                "OTHER">>

Rank(t) == CHOOSE k \in 1..Len(ClassOrder) : ClassOrder[k] = t

KnownDevices ==
    {k \in 1..Len(physDevices) :
        \E r \in 1..Len(ClassOrder) : ClassOrder[r] = physDevices[k]}

\* C10: after the loop the selected device is of the best class present,
\* and it is the first enumerated device of that class.
C10_BestClass ==
    (sel_i = Len(physDevices) /\ KnownDevices # {}) =>
        /\ gpu_device \in KnownDevices
        /\ \A k \in KnownDevices :
              /\ Rank(physDevices[gpu_device]) <= Rank(physDevices[k])
              /\ Rank(physDevices[gpu_device]) = Rank(physDevices[k])
                    => gpu_device <= k

\* C10 witness: of two discrete devices after a software one the first
\* discrete device is selected.
C10_Witness ==
    /\ physDevices = <<"CPU", "DISCRETE_GPU", "DISCRETE_GPU">>
    /\ sel_i = 3
    /\ gpu_device = 2

\* C15: every destroy follows a device-idle wait with no submission in
\* between: no handle is released while a batch is in flight, and the call
\* before each EndSwapchain is a wait for device idle.
C15_IdleBeforeDestroy ==
    /\ [](/\ pc \in EndPcs \cup {"disc_rest"} => inflight = {}
          /\ \A k \in 1..Len(ops) :
                ops[k] = "destroy" => k > 1 /\ ops[k - 1] = "wait_idle")
    /\ [][(\E k \in DOMAIN alloc : alloc'[k] < alloc[k])
            => inflight = {}]_vars

\* C15 witness: the present-side recreation is about to destroy the
\* swapchain in a tick that submitted a batch.
C15_Witness ==
    /\ pc = "pres_end"
    /\ Count(ops, "submit") = 1
    /\ ops[Len(ops)] = "wait_idle"
    /\ inflight = {}

\* C16: Disconnect waits for device idle, destroys the swapchain, then the
\* command pool, the logical device, the surface and the instance, in that
\* order, and Wayland is disconnected last.
C16_TeardownOrder ==
    /\ pc = "done" =>
          ops = <<"wait_idle", "destroy", "destroy_pool", "destroy_device",
                  "destroy_surface", "destroy_instance",
                  "wayland_disconnect">>
    /\ pc = "disc_rest" => ~swapchain /\ inflight = {}

\* C16 witness: the window closed after a frame and Disconnect returned.
C16_Witness ==
    /\ pc = "done"
    /\ image_count = 2
    /\ lastFence = EmptyFn
    /\ Count(ops, "destroy_instance") = 1

\* C17: never more than one swapchain, render pass and elements array;
\* StartSwapchain always starts with nothing allocated, and every create
\* of a tick directly follows a destroy.
C17_OneGeneration ==
    /\ alloc.swapchain <= 1
    /\ alloc.renderpass <= 1
    /\ alloc.elements <= 1
    /\ pc \in StartPcs => ~swapchain /\ alloc = NoAlloc
    /\ \A k \in 1..Len(ops) :
          ops[k] = "create" => k > 1 /\ ops[k - 1] = "destroy"

\* C17 witness: one tick recreated the swapchain for a resize and again
\* after present.
C17_Witness ==
    /\ pc = "sync"
    /\ Count(ops, "create") = 2
    /\ Count(ops, "present") = 1
    /\ alloc.swapchain = 1

\* C18: after the EndSwapchain of a Frame call the call only creates the
\* new generation and advances the slot; a new generation starts with
\* every lastFence null and no batch in flight, lastFence is assigned only
\* by a Frame call that destroyed nothing, to a fence of the generation in
\* use, and the slot and image indices stay within that generation.
C18_NoStaleReference ==
    /\ [](/\ \A j, k \in 1..Len(FrameOps(ops)) :
                (j < k /\ FrameOps(ops)[j] = "destroy") =>
                    FrameOps(ops)[k] \in {"create", "advance"}
          /\ swapchain =>
                /\ current_frame \in Slots
                /\ image_index \in Slots)
    /\ [][(pc \in StartPcs /\ pc' \notin StartPcs) =>
            /\ inflight' = {}
            /\ \A i \in DOMAIN lastFence' : lastFence'[i] = Null]_vars
    /\ [][(swapchain /\ swapchain' /\ lastFence' # lastFence) =>
            /\ pc = "image_wait"
            /\ Count(FrameOps(ops), "destroy") = 0
            /\ current_frame \in Slots
            /\ lastFence' =
                  [lastFence EXCEPT ![image_index] = current_frame]]_vars

\* C18 witness: a Frame call recreated the swapchain after present and
\* returned on the new generation.
C18_Witness ==
    /\ pc = "sync"
    /\ Count(FrameOps(ops), "submit") = 1
    /\ Count(FrameOps(ops), "destroy") = 1
    /\ ops[Len(ops)] = "advance"
    /\ \A i \in Slots : lastFence[i] = Null

\* C19: a result other than success, out-of-date or suboptimal is the last
\* call of its tick and the process has terminated.
C19_FatalResult ==
    \A k \in 1..Len(ops) :
        ops[k] \in ErrorResults => k = Len(ops) /\ pc = "exit"

\* C11: the device selected by Connect's loop passes RateGPU, i.e. it has
\* geometry-shader support.
C11_FeatureRequired ==
    (conn_pc = "select" /\ sel_i = Len(physDevices) /\ gpu_device # 0) =>
        RateGPU(geometryShader[gpu_device]) # 0

\* C12: Connect goes on to the queue families, the logical device and the
\* command pool only with a selected physical device.
C12_SelectionError ==
    conn_pc \in {"families", "device", "pool", "done", "crash"} =>
        gpu_device # 0

\* The indices of the families with graphics and presentation support.
QualifyingFamilies ==
    {k \in 0..(Len(queueFamilies) - 1) :
        queueFamilies[k + 1].graphics /\ queueFamilies[k + 1].present}

\* C13: the scan visits the families in increasing index order, passes
\* only families that lack graphics or presentation support, assigns
\* queue_family_index only to a family with both, and when a family with
\* both exists ends with the lowest such index.
C13_LowestFamily ==
    /\ [](/\ conn_pc = "families" =>
                \A k \in QualifyingFamilies : k >= qf_i
          /\ (conn_pc \in {"device", "pool", "done"}
                  /\ QualifyingFamilies # {}) =>
                /\ queue_family_index \in QualifyingFamilies
                /\ \A k \in QualifyingFamilies : queue_family_index <= k)
    /\ [][queue_family_index' # queue_family_index =>
            queue_family_index' \in QualifyingFamilies]_vars
    /\ [][(conn_pc = "families" /\ conn_pc' = "families") =>
            qf_i' = qf_i + 1]_vars

\* C13 witness: the scan passed a graphics-only family and selected the
\* second family.
C13_Witness ==
    /\ conn_pc = "done"
    /\ Len(queueFamilies) = 2
    /\ queueFamilies[1] = [graphics |-> TRUE, present |-> FALSE]
    /\ QualifyingFamilies = {1}
    /\ queue_family_index = 1

\* C14: the logical device and the command pool are created only on a
\* family with graphics and presentation support.
C14_NoFamilyFails ==
    conn_pc \in {"pool", "done"} => queue_family_index \in QualifyingFamilies

\* C20: after a failed vkCreateInstance or vkCreateDevice Connect does not
\* continue.
C20_CreationFatal ==
    /\ instance_result # "VK_SUCCESS" => conn_pc = "exit"
    /\ device_result # "VK_SUCCESS" => conn_pc = "exit"

\* C21: when Connect has returned true a swapchain generation with
\* image_count per-image resources exists.
C21_InitialSwapchain ==
    conn_pc = "done" =>
        /\ swapchain
        /\ image_count >= 1
        /\ alloc = CreatedBy(image_count)

\* The calls of a Frame call up to vkQueuePresentKHR, with and without
\* the wait on lastFence.
PresentingTick(waited) ==
    <<"wait_slot", "acquire", "VK_SUCCESS">> \o
    (IF waited THEN <<"wait_last">> ELSE <<>>) \o
    <<"set_last", "reset", "record", "submit", "present">>

\* C29: a tick that presents has made its calls in the order slot-fence
\* wait, acquire, wait on lastFence exactly when it was non-null, lastFence
\* assignment, fence reset, recording, submit, present, and ends with the
\* slot advance; acquire, submit and present were given the semaphores and
\* the fence of the slot in use.
C29_StepOrder ==
    /\ [](Count(FrameOps(ops), "present") = 1 =>
            /\ \E waited \in BOOLEAN :
                  IsPrefix(PresentingTick(waited), FrameOps(ops))
            /\ pc = "sync" => ops[Len(ops)] = "advance"
            /\ Count(FrameOps(ops), "advance") <= 1
            /\ sems.acquire # Null
            /\ sems.submit_wait = sems.acquire
            /\ sems.submit_signal = sems.acquire
            /\ sems.submit_fence = sems.acquire
            /\ sems.present_wait = sems.acquire)
    /\ [][(pc = "frame" /\ pc' # "frame") =>
            sems'.acquire = current_frame]_vars
    /\ [][(pc = "image_wait" /\ pc' # "image_wait") =>
            /\ sems'.submit_fence = current_frame
            /\ sems'.acquire = current_frame
            /\ Count(ops', "wait_last") = 1 <=>
                  lastFence[image_index] # Null]_vars

\* C29 witness: a tick ended that acquired image 0 in slot 1, waited on the
\* image's lastFence and presented.
C29_Witness ==
    /\ pc = "sync"
    /\ ops[Len(ops)] = "advance"
    /\ IsPrefix(PresentingTick(TRUE), FrameOps(ops))
    /\ sems.present_wait = 1
    /\ image_index = 0

\* C30: no two batches in flight were submitted with the same slot, their
\* number never exceeds the number of slots, and when Frame passes the
\* slot's semaphore to acquire and the slot's fence to vkQueueSubmit no
\* batch submitted with that slot is in flight.
C30_OnePerSlot ==
    /\ [](/\ Cardinality(inflight) <= image_count
          /\ \A a, b \in inflight : a.slot = b.slot => a = b)
    /\ [][(pc = "frame" /\ pc' # "frame") =>
            \A s \in inflight : s.slot # current_frame]_vars
    /\ [][(pc = "image_wait" /\ pc' # "image_wait") =>
            \A s \in inflight : s.slot # current_frame]_vars

\* C30 witness: a batch is in flight on every slot of a two-slot ring,
\* the later one submitted after the slot had been used before.
C30_Witness ==
    /\ image_count = 2
    /\ Cardinality(inflight) = 2
    /\ \A i \in Slots : lastFence[i] # Null
    /\ pc = "sync"
    /\ Count(ops, "wait_last") = 1

\* The last n elements of seq, in order.
LastOf(seq, n) ==
    SubSeq(seq, IF Len(seq) > n THEN Len(seq) - n + 1 ELSE 1, Len(seq))

\* C22: after any sequence of Push calls the error stack holds at most 15
\* errors, which are the most recently pushed ones in push order; a Push
\* onto a stack of 15 removes exactly the oldest entry and appends.
C22_MostRecent ==
    /\ [](/\ Len(error_stack) <= StackLimit
          /\ error_stack = LastOf(pushed, StackLimit))
    /\ [][(Len(error_stack) = StackLimit /\ pushed' # pushed) =>
            error_stack' =
                Append(Tail(error_stack), pushed'[Len(pushed')])]_vars

\* C22 witness: a sixteenth Push has evicted the first error, which
\* differed from the second.
C22_Witness ==
    /\ Len(pushed) = StackLimit + 1
    /\ Len(error_stack) = StackLimit
    /\ pushed[1].severity = "panic"
    /\ pushed[2].severity = "infer"
    /\ error_stack[1] = pushed[2]
    /\ error_stack[StackLimit] = pushed[StackLimit + 1]

\* C23: GetSeverity returns infer for no error on the stack and for no
\* error returned by Pull.
C23_NeverInfer ==
    \A e \in HeldErrors : Error_GetSeverity(e) # "infer"

\* C24: a Push throws PanicException exactly when the pushed error's
\* severity is panic, and in either case the error is the top of the
\* stack when Push ends.
C24_PanicThrows ==
    [][pushed' # pushed =>
        LET e == pushed'[Len(pushed')]
        IN  /\ error_stack'[Len(error_stack')] = e
            /\ push_result'.thrown <=> Error_GetSeverity(e) = "panic"]_vars

\* C24 witness: a Push of severity error returned and a later Push of
\* severity panic threw with its error on top of the stack.
C24_Witness ==
    /\ push_result.thrown
    /\ Len(error_stack) = 2
    /\ error_stack[1].severity = "error"
    /\ error_stack[2].severity = "panic"

\* C25: Stringify returns the representation of the error it is called
\* on.
C25_OwnFields ==
    stringify_call # NoCall =>
        stringify_call.returned = Format(stringify_call.subject)

\* C26: Ir_GetProblem(SIZE_MAX) on a non-empty stack returns the element
\* at position reported_problem_count - 1, and any other index at or
\* above the count returns nullptr.
C26_LastProblem ==
    (got.called /\ got.returned) =>
        /\ (got.index = SIZE_MAX /\ got.count # 0) =>
              got.element = got.count - 1
        /\ (got.index # SIZE_MAX /\ got.index >= got.count) =>
              got.element = nullptr

\* The severity the last report resolved to.
ReportSeverity == GetSeverity(last_report.code, last_report.override)

\* The function of the last report is in the silenced list.
ReportCaught ==
    \E i \in DOMAIN silenced_functions :
        silenced_functions[i] = last_report.function

\* The last report was stored as the newest problem.
ReportStored ==
    /\ reported_problems # <<>>
    /\ reported_problems[Len(reported_problems)] =
          [code |-> last_report.code, severity |-> ReportSeverity]

\* What the fatality level alone makes fatal: panics always, errors from
\* ir_include_errors on, warnings under ir_all_problems.
LevelFatal(severity) ==
    \/ severity = "ir_panic"
    \/ fatality_level = "ir_include_errors" /\ severity = "ir_error"
    \/ fatality_level = "ir_all_problems"

\* C27 as stated: a non-panic report from a caught function is not fatal
\* and is stored, a panic is fatal, and once the name was released the
\* fatality level decides.
C27_Original ==
    last_report.called =>
        /\ (ReportCaught /\ ReportSeverity # "ir_panic") =>
              ~aborted /\ ReportStored
        /\ ReportSeverity = "ir_panic" => aborted
        /\ last_report.function \in released =>
              (aborted <=> LevelFatal(ReportSeverity))

\* C27: for a report with a code other than ir_no_error, a non-panic
\* problem from a function whose name is in the silenced list is not fatal
\* and is stored, a panic is fatal, and a function whose name is not in
\* the list (one release takes out one occurrence) is subject to the
\* fatality level; a report of ir_no_error is an ir_unexpected_param
\* warning from Ir_ReportProblem_, fatal only under ir_all_problems and
\* only when that name is not in the list.
C27_CaughtNotFatal ==
    last_report.called =>
        IF last_report.code = "ir_no_error"
        THEN /\ aborted <=>
                  /\ fatality_level = "ir_all_problems"
                  /\ \A i \in DOMAIN silenced_functions :
                        silenced_functions[i] # "Ir_ReportProblem_"
             /\ ~aborted =>
                  reported_problems[Len(reported_problems)] =
                      [code |-> "ir_unexpected_param",
                       severity |-> "ir_warning"]
        ELSE /\ (ReportCaught /\ ReportSeverity # "ir_panic") =>
                  ~aborted /\ ReportStored
             /\ ReportSeverity = "ir_panic" => aborted
             /\ ~ReportCaught =>
                  (aborted <=> LevelFatal(ReportSeverity))
             /\ ~aborted => ReportStored

\* C27 witness: main was caught twice and released once, and a warning
\* reported from main under ir_all_problems was stored without abort.
C27_Witness ==
    /\ last_report.called
    /\ last_report.function = "main"
    /\ last_report.code = "ir_failed_file_open"
    /\ ReportSeverity = "ir_warning"
    /\ "main" \in released
    /\ silenced_functions = <<"main">>
    /\ fatality_level = "ir_all_problems"
    /\ ~aborted
    /\ ReportStored

\* C28: the number of problems kept never exceeds the maximum set.
C28_WithinMaximum ==
    Len(reported_problems) <= max_reported_problems

\* C31 (as stated): every tick that presented ends with current_frame
\* equal to the slot it used plus one, modulo the slot count.
C31_Original ==
    (pc = "sync" /\ Count(ops, "present") = 1) =>
        current_frame = (sems.submit_fence + 1) % image_count

\* C31 (amended): a tick that presented without recreation ends with
\* current_frame equal to the slot it used plus one modulo image_count; a
\* tick whose present result triggered the recreation ends with
\* current_frame = 1 mod the new image_count, EndSwapchain having reset it
\* to 0 before the advance.
C31_TickEnd ==
    /\ []((pc = "sync" /\ Count(ops, "present") = 1) =>
            IF Count(ops, "create") = 1
            THEN current_frame = 1 % image_count
            ELSE current_frame = (sems.submit_fence + 1) % image_count)
    /\ [][pc = "pres_end" => current_frame' = 0]_vars
    /\ [][pc = "pres_advance" =>
            current_frame' = (current_frame + 1) % image_count]_vars

\* C31 witness: a tick used slot 1 of two, its present triggered the
\* recreation with two images again, and it ended with current_frame 1.
C31_Witness ==
    /\ pc = "sync"
    /\ Count(ops, "present") = 1
    /\ Count(ops, "create") = 1
    /\ ops[Len(ops)] = "advance"
    /\ sems.submit_fence = 1
    /\ image_count = 2
    /\ current_frame = 1

\* C32: StartSwapchain leaves every fence signaled and every lastFence
\* null, and as long as no lastFence of the generation has been assigned
\* (no Frame call has submitted yet) the slot in use is a slot of the
\* generation, its fence is signaled and the acquired image's lastFence is
\* null, so neither wait of Frame blocks.
C32_FreshGeneration ==
    /\ [][(pc \in StartPcs) =>
            (\A i \in 0..(image_count' - 1) :
                fence'[i] /\ lastFence'[i] = Null)]_vars
    /\ []((swapchain /\ \A i \in Slots : lastFence[i] = Null) =>
            /\ \A i \in Slots : fence[i]
            /\ pc \in {"frame", "image_wait", "sync", "resize"} =>
                  current_frame \in Slots
            /\ pc = "frame" => FenceWait(current_frame)
            /\ pc = "image_wait" =>
                  /\ lastFence[image_index] = Null
                  /\ LastFenceWait)

\* C32 witness: the first Frame call after a present-side recreation has
\* acquired an image in slot 1 and stands before its lastFence wait.
C32_Witness ==
    /\ pc = "image_wait"
    /\ image_count = 2
    /\ current_frame = 1
    /\ sems.acquire = 1
    /\ \A i \in Slots : lastFence[i] = Null /\ fence[i]

\* C35: at the start of every Frame call, and up to its submit,
\* current_frame is a slot of the current generation, and so is the
\* acquired image index at the submit.
C35_SlotInRange ==
    /\ pc \in {"frame", "image_wait"} =>
          /\ swapchain
          /\ image_count >= 1
          /\ current_frame \in 0..(image_count - 1)
    /\ pc = "image_wait" => image_index \in 0..(image_count - 1)
    /\ pc = "resize" => swapchain /\ current_frame < image_count

\* C35 witness: a tick used slot 1 of a two-image generation, its present
\* triggered a recreation that yielded one image, and the tick ended.
C35_Witness ==
    /\ pc = "sync"
    /\ sems.submit_fence = 1
    /\ Count(ops, "create") = 1
    /\ image_count = 1
    /\ current_frame = 0

\* C37: in every tick that records a render pass the render area equals
\* the extent the framebuffers of the generation were created with.
C37_RenderArea ==
    (pc \in {"sync", "pres_idle"} /\ Count(ops, "record") = 1) =>
        RenderArea = fb_extent

\* A toplevel configure event with non-zero width and height.
NonZero(e) ==
    e.kind = "toplevel_configure" /\ e.dim[1] # 0 /\ e.dim[2] # 0

\* The sequence holds a surface configure that comes after a non-zero
\* toplevel configure, of the sequence or pending before it.
Acked(pending, evs) ==
    \E j \in 1..Len(evs) :
        /\ evs[j].kind = "surface_configure"
        /\ pending \/ \E i \in 1..(j - 1) : NonZero(evs[i])

\* C33: ready_to_resize is set only by a surface configure that follows a
\* non-zero toplevel configure, whatever the events of a roundtrip are
\* and whatever was pending before it, and ResizeWindow starts a
\* recreation exactly when both flags are set; otherwise it changes
\* nothing.
C33_ResizeHandshake ==
    /\ [](/\ ready_to_resize => resize
          /\ \A evs \in EventSeqs :
                LET w == DispatchAll(WlState, evs)
                IN  /\ w.ready <=>
                          (ready_to_resize \/ Acked(resize, evs))
                    /\ w.resize <=>
                          (resize \/ \E i \in 1..Len(evs) :
                                        NonZero(evs[i])))
    /\ [][(pc = "resize" /\ pc' # pc) =>
            /\ pc' = "resize_idle" <=> (resize /\ ready_to_resize)
            /\ ~(resize /\ ready_to_resize) =>
                  /\ pc' = "frame"
                  /\ UNCHANGED <<swapchain, image_count, fence, lastFence,
                                 alloc, fb_extent, size, ops, resize,
                                 ready_to_resize>>]_vars
    /\ [][(pc' \in {"resize_idle", "resize_end", "resize_start"}) =>
            (resize /\ ready_to_resize)]_vars

\* C33 witness: after a completed handshake for 800x600 ResizeWindow has
\* recreated the swapchain and has not yet cleared the flags.
C33_Witness ==
    /\ pc = "resize_done"
    /\ resize
    /\ ready_to_resize
    /\ fb_extent = <<800, 600>>
    /\ ops = RecreateCycle

\* The calls ResizeWindow and Frame make.
LoopCalls == {"wait_slot", "acquire", "wait_last", "set_last", "reset",
              "record", "submit", "present", "create", "advance"}

\* C38: once quit is set the window loop has ended: no call of
\* ResizeWindow or Frame is made any more, the program is in teardown,
\* and when teardown is over every call of Vulkan::Disconnect, the
\* surface destruction among them, precedes Wayland::Disconnect.
C38_CloseEndsLoop ==
    /\ [](quit =>
            /\ pc \in {"disc_idle", "disc_end", "disc_rest", "done"}
            /\ \A k \in 1..Len(ops) : ops[k] \notin LoopCalls)
    /\ [](pc = "done" =>
            /\ quit
            /\ ops[Len(ops)] = "wayland_disconnect"
            /\ \A c \in {"wait_idle", "destroy", "destroy_pool",
                          "destroy_device", "destroy_surface",
                          "destroy_instance"} :
                  \E k \in 1..(Len(ops) - 1) : ops[k] = c)
    /\ [][quit => UNCHANGED <<size, new_size, resize, ready_to_resize,
                              fb_extent, quit>>]_vars

\* C38 witness: the close event arrived together with a completed resize
\* handshake, and teardown ended without the resize being served.
C38_Witness ==
    /\ pc = "done"
    /\ quit
    /\ resize
    /\ ready_to_resize
    /\ size # new_size

\* The positions of the non-zero toplevel configures of a sequence.
NonZeroAt(evs) == {i \in 1..Len(evs) : NonZero(evs[i])}

\* The last position of a non-empty set of positions.
LastAt(S) == CHOOSE i \in S : \A j \in S : j <= i

C36_NoSemaphoreReuse ==
    [][(pc = "image_wait" /\ pc' # pc) =>
          \A p \in presents : p.sem # current_frame]_vars

\* The slot has a submitted batch the device has not completed.
Pending(slot) == \E b \in inflight : b.slot = slot

\* C34: every Frame call terminates: every fence is signaled or has a
\* pending submission that will signal it, every lastFence is a fence of
\* the current generation, every fence reset of a tick is followed by a
\* submission in that tick, and a tick that has entered Frame reaches
\* the end of Frame.
C34_FrameTerminates ==
    /\ [](\A slot \in DOMAIN fence : FenceWait(slot) \/ Pending(slot))
    /\ [](\A i \in DOMAIN lastFence :
            lastFence[i] # Null => lastFence[i] \in DOMAIN fence)
    /\ [](\A k \in 1..Len(ops) :
            ops[k] = "reset" =>
                \E j \in (k + 1)..Len(ops) : ops[j] = "submit")
    /\ (pc = "frame") ~> (pc = "sync")
    /\ (pc = "image_wait") ~> (pc = "sync")

\* C34 witness: Frame is entered while the fence of its slot is
\* unsignaled and the batch that will signal it is still in flight.
C34_Witness ==
    /\ pc = "frame"
    /\ ~FenceWait(current_frame)
    /\ Pending(current_frame)
    /\ lastFence[current_frame] # Null

====
